---- MODULE Spec2Model ----
(***************************************************************************)
(* Model of @oniryk/xlsx: the SharedStrings table, the Sheet row buffer    *)
(* and column widths, worksheet / string-table XML generation and the      *)
(* Package.build() assembly.                                               *)
(*                                                                         *)
(* Text is a sequence of UTF-16 code units (integers), so that escaping    *)
(* and column naming are computed character by character.  Generated XML   *)
(* is a sequence of tokens (one per string pushed by the code), grouped    *)
(* by the write that carried them.                                         *)
(***************************************************************************)
EXTENDS Integers, Sequences, FiniteSets, TLC

\* ------------------------------------------------------------------ bounds
MaxRows == 2
MaxChunk == 2
MaxWrites == 3
MaxEscLen == 2
MaxColIndex == 730
SstBatch == 2

\* ------------------------------------------------------------- text helpers
RECURSIVE Concat(_)
Concat(ss) == IF ss = <<>> THEN <<>> ELSE Head(ss) \o Concat(Tail(ss))

Range(s) == {s[i] : i \in 1..Len(s)}

\* Code units of the literals used below.
TxtEmpty == <<>>
TxtAmp == <<97, 38>>
TxtTrue == <<116, 114, 117, 101>>
TxtUndefined == <<117, 110, 100, 101, 102, 105, 110, 101, 100>>

\* ------------------------------------------------------------ escapeXML
IsControl(ch) == ch \in 0..31 \/ ch = 127

EntityChars == {38, 60, 62, 34, 39}

\* The entities object: defined for the five characters only.
entities(ch) ==
  CASE ch = 38 -> <<38, 97, 109, 112, 59>>
    [] ch = 60 -> <<38, 108, 116, 59>>
    [] ch = 62 -> <<38, 103, 116, 59>>
    [] ch = 34 -> <<38, 113, 117, 111, 116, 59>>
    [] ch = 39 -> <<38, 97, 112, 111, 115, 59>>
    [] OTHER -> TxtUndefined

\* First replace: /[\x00-\x1F\x7F]/g -> '?'
\* (mutant: control characters left in place)
ReplaceControlMut(value) == value
ReplaceControl(value) == [i \in 1..Len(value) |-> IF IsControl(value[i]) THEN 63 ELSE value[i]]

\* Second replace: /[&<>"'\\]/g -> entities[char]; the class also matches the
\* backslash, for which the lookup yields undefined, inserted as "undefined".
ReplaceEntities(value) == Concat([i \in 1..Len(value) |-> IF value[i] \in EntityChars \cup {92} THEN entities(value[i]) ELSE <<value[i]>>])

escapeXML(value) == ReplaceEntities(ReplaceControl(value))

\* ------------------------------------------------------------ columnName
\* One iteration of the while loop: st = [index, column].
\* (mutant: letters counted from B)
ColumnStepMut(st) == [index |-> (st.index \div 26) - 1, column |-> <<65 + ((st.index + 1) % 26)>> \o st.column]
ColumnStep(st) == [index |-> (st.index \div 26) - 1, column |-> <<65 + (st.index % 26)>> \o st.column]

RECURSIVE ColumnLoop(_)
ColumnLoop(st) == IF st.index >= 0 THEN ColumnLoop(ColumnStep(st)) ELSE st.column

columnName(index) == ColumnLoop([index |-> index, column |-> <<>>])

\* Sheet.COLUMNS: names precomputed for indices below ZZ = 702.
ZZ == 702
COLUMNS[i \in 0..(ZZ - 1)] == columnName(i)

\* COLUMNS.get(index) || columnName(index): the keys of the map are 0..ZZ-1.
getExcelColumn(index) == IF index \in 0..(ZZ - 1) THEN COLUMNS[index] ELSE columnName(index)

\* -------------------------------------------------------------- cell values
\* A cell value as the code sees it: kind is the branch of the JavaScript
\* type (null, undefined, string, number, Date object, boolean).  A Date is
\* held as its getTime() split into whole days since 1970-01-01 (num) and
\* milliseconds within that day (ms).
Cell(kind, text, num, ms) == [kind |-> kind, text |-> text, num |-> num, ms |-> ms]
CNull == Cell("null", <<>>, 0, 0)
CUndef == Cell("undefined", <<>>, 0, 0)
CStr(text) == Cell("string", text, 0, 0)
CNum(n) == Cell("number", <<>>, n, 0)
CDate(day, ms) == Cell("date", <<>>, day, ms)
CTrue == Cell("boolean", <<>>, 1, 0)

\* String(cell) for the values that reach the coercing branches.
JsString(cell) == IF cell.kind = "boolean" THEN (IF cell.num = 1 THEN TxtTrue ELSE <<102, 97, 108, 115, 101>>) ELSE cell.text

\* Rows the callers pass in.
RowEmpty == <<>>
RowBlank == <<CNull, CNum(0), CStr(TxtEmpty)>>
RowTrue == <<CTrue, CStr(TxtTrue), CDate(19753, 0)>>
RowAmp == <<CStr(TxtAmp), CUndef>>
RowNumeric == <<CDate(19754, 43200432), CNull, CNum(25), CDate(19753, 0)>>
RowPool == {RowEmpty, RowBlank, RowTrue, RowAmp, RowNumeric}

\* Row lists the callers pass to addRows.
RowsPool == {<<>>, <<RowBlank>>, <<RowTrue, RowAmp>>, <<RowNumeric, RowBlank>>, <<RowAmp, RowAmp>>, <<RowBlank, RowTrue, RowAmp>>}

\* Strings passed to SharedStrings.add directly.
TextPool == {TxtTrue}

\* Column indices and widths passed to setColumWidth, and the lists of its
\* bulk form.
WidthIndices == {0, 1}
Widths == {15, 20}
SizesPool == {<<>>, << <<0, 15>> >>, << <<0, 15>>, <<1, 20>> >>, << <<1, 15>>, <<0, 20>> >>, << <<0, 15>>, <<0, 20>> >>, << <<1, 20>>, <<0, 15>>, <<1, 15>> >>}

\* Arguments of setColumWidth that do not have the declared shape.  A value
\* is [type, val]; an element of a bulk list is either iterable, with the
\* numbers it yields, or a number, which cannot be destructured.
JsNum(n) == [type |-> "number", val |-> n]
JsStr(n) == [type |-> "string", val |-> n]
JsUndef == [type |-> "undefined", val |-> 0]
Elem(items) == [iterable |-> TRUE, items |-> items]
ElemNumber == [iterable |-> FALSE, items |-> <<>>]
OneArg(index, width) == [form |-> "single", index |-> index, width |-> width, sizes |-> <<>>]
ListArg(sizes) == [form |-> "bulk", index |-> JsUndef, width |-> JsUndef, sizes |-> sizes]

\* setColumWidth("0", 15), (0), (1, "15"), ([[0]]) and ([[1, 20], 5]).
LooseCalls == {OneArg(JsStr(0), JsNum(15)), OneArg(JsNum(0), JsUndef), OneArg(JsNum(1), JsStr(15)),
               ListArg(<<Elem(<<0>>)>>), ListArg(<<Elem(<<1, 20>>), ElemNumber>>)}

\* undefined as a value stored in columnWidths.
Undefined == -1

\* ------------------------------------------------------ convertToExcelDate
\* EPOCH = new Date(1899, 11, 30).getTime() is day -25569 (process in UTC).
EPOCH_DAY == -25569
DAY_MS == 86400000

\* Math.round(((date.getTime() - EPOCH) / DAY_MS) * 100000) / 100000 as
\* <<whole days, fifth-decimal units>>; Math.round rounds half up.
\* (mutant: the serial rounded to whole days)
convertToExcelDateMut(cell) ==
  IF 2 * cell.ms >= DAY_MS THEN <<cell.num - EPOCH_DAY + 1, 0>> ELSE <<cell.num - EPOCH_DAY, 0>>
convertToExcelDate(cell) ==
  LET units == (2 * cell.ms + 864) \div 1728
  IN IF units = 100000 THEN <<cell.num - EPOCH_DAY + 1, 0>> ELSE <<cell.num - EPOCH_DAY, units>>

\* ------------------------------------------------------------ SharedStrings
\* A table is [strings, stringIndexMap]; add returns the table and the id.
EmptyMap == [x \in {} |-> 0]

\* (mutant: no lookup, every call appends)
addMut(tbl, str) ==
  LET index == Len(tbl.strings)
  IN [strings |-> Append(tbl.strings, str), stringIndexMap |-> (str :> index) @@ tbl.stringIndexMap, id |-> index]
add(tbl, str) ==
  IF str \in DOMAIN tbl.stringIndexMap
  THEN [strings |-> tbl.strings, stringIndexMap |-> tbl.stringIndexMap, id |-> tbl.stringIndexMap[str]]
  ELSE LET index == Len(Append(tbl.strings, str)) - 1
       IN [strings |-> Append(tbl.strings, str), stringIndexMap |-> (str :> index) @@ tbl.stringIndexMap, id |-> index]

size(strs) == Len(strs)

\* ----------------------------------------------------------------- tokens
\* One token per string the code pushes or writes.
Tok(tag, r, t, s, v) == [tag |-> tag, r |-> r, t |-> t, s |-> s, v |-> v]

\* mapper: <col min="k+1" max="k+1" width="w" customWidth="1"/>
mapper(kw) == Tok("col", <<>>, "", "", <<kw[1] + 1, kw[1] + 1, kw[2]>>)

\* ------------------------------------------------------ Sheet.writeChunk
\* The cell dispatch of writeChunk for one cell; ref is <<column name, row
\* number>>.  Returns the token pushed and the table after the add, if any.
TextCell(ref, str, tbl) ==
  LET a == add(tbl, str)
  IN [tok |-> Tok("c", ref, "s", "", <<a.id>>), tbl |-> [strings |-> a.strings, stringIndexMap |-> a.stringIndexMap], calls |-> << <<str, a.id>> >>]

\* (mutant: the test for an empty cell written as !cell)
CellDispatchMut(ref, cell, tbl) ==
  IF cell.kind \in {"null", "undefined"} \/ (cell.kind = "number" /\ cell.num = 0) \/ (cell.kind = "string" /\ cell.text = <<>>)
  THEN [tok |-> Tok("c", ref, "", "", <<>>), tbl |-> tbl, calls |-> <<>>]
  ELSE CASE cell.kind = "string" -> TextCell(ref, cell.text, tbl)
         [] cell.kind = "number" -> [tok |-> Tok("c", ref, "", "", <<cell.num>>), tbl |-> tbl, calls |-> <<>>]
         [] cell.kind = "date" -> [tok |-> Tok("c", ref, "", "1", convertToExcelDate(cell)), tbl |-> tbl, calls |-> <<>>]
         [] OTHER -> TextCell(ref, JsString(cell), tbl)
CellDispatch(ref, cell, tbl) ==
  IF cell.kind \in {"null", "undefined"}
  THEN [tok |-> Tok("c", ref, "", "", <<>>), tbl |-> tbl, calls |-> <<>>]
  ELSE CASE cell.kind = "string" -> TextCell(ref, cell.text, tbl)
         [] cell.kind = "number" -> [tok |-> Tok("c", ref, "", "", <<cell.num>>), tbl |-> tbl, calls |-> <<>>]
         [] cell.kind = "date" -> [tok |-> Tok("c", ref, "", "1", convertToExcelDate(cell)), tbl |-> tbl, calls |-> <<>>]
         [] OTHER -> TextCell(ref, JsString(cell), tbl)

\* The inner loop over the columns of one row, from column index ci on.
\* acc = [chunks, tbl, calls].
RECURSIVE WriteCols(_, _, _, _)
WriteCols(cols, ci, row, acc) ==
  IF ci >= Len(cols) THEN acc
  ELSE LET d == CellDispatch(<<getExcelColumn(ci), row>>, cols[ci + 1], acc.tbl)
       IN WriteCols(cols, ci + 1, row, [chunks |-> Append(acc.chunks, d.tok), tbl |-> d.tbl, calls |-> acc.calls \o d.calls])

\* The outer loop over the rows of the chunk, from position i on.
RECURSIVE WriteRows(_, _, _, _)
WriteRows(rs, i, startIndex, acc) ==
  IF i >= Len(rs) THEN acc
  ELSE LET row == startIndex + i + 1
           opened == [acc EXCEPT !.chunks = Append(@, Tok("rowOpen", <<row>>, "", "", <<>>))]
           done == WriteCols(rs[i + 1], 0, row, opened)
       IN WriteRows(rs, i + 1, startIndex, [done EXCEPT !.chunks = Append(@, Tok("rowClose", <<>>, "", "", <<>>))])

\* writeChunk up to its write: the content written and the table afterwards.
writeChunk(rs, startIndex, tbl) == WriteRows(rs, 0, startIndex, [chunks |-> <<>>, tbl |-> tbl, calls |-> <<>>])

\* rows.slice(i, i + CHUNK_SIZE)
\* (mutant: the end of the slice ignored)
SliceMut(rs, from, to) == SubSeq(rs, from + 1, Len(rs))
Slice(rs, from, to) == SubSeq(rs, from + 1, IF to < Len(rs) THEN to ELSE Len(rs))

\* ------------------------------------------------------------- Sheet state
addRow(rs, row) == Append(rs, row)

\* (mutant: the new rows spread first)
addRowsMut(rs, more) == more \o rs
addRows(rs, more) == rs \o more

rowsCount(rs) == Len(rs)

\* columnWidths is a Map: a sequence of <<index, width>> in insertion order.
HasKey(m, k) == \E i \in 1..Len(m) : m[i][1] = k

\* (mutant: an existing key keeps its value)
MapSetMut(m, k, w) == IF HasKey(m, k) THEN m ELSE Append(m, <<k, w>>)
MapSet(m, k, w) == IF HasKey(m, k) THEN [i \in 1..Len(m) |-> IF m[i][1] = k THEN <<k, w>> ELSE m[i]] ELSE Append(m, <<k, w>>)

MapGet(m, k) == IF HasKey(m, k) THEN (CHOOSE p \in Range(m) : p[1] = k)[2] ELSE 0

\* The bulk form of setColumWidth: for (const [index, width] of sizes) set.
RECURSIVE setColumWidthBulk(_, _)
setColumWidthBulk(m, sizes) == IF sizes = <<>> THEN m ELSE setColumWidthBulk(MapSet(m, Head(sizes)[1], Head(sizes)[2]), Tail(sizes))

setColumWidthOne(m, index, width) == MapSet(m, index, width)

\* const [index, width] = e: the n-th value e yields, undefined past its end.
Item(e, n) == IF n <= Len(e.items) THEN e.items[n] ELSE Undefined

\* The for-of loop of the bulk form over elements of any shape: each
\* element is destructured and set; destructuring a value that is not
\* iterable throws a TypeError, which ends the call with the earlier
\* elements set.  Returns the map, the writes made and whether it threw.
RECURSIVE BulkLoop(_, _, _)
BulkLoop(m, sizes, writes) ==
  IF sizes = <<>> THEN [m |-> m, writes |-> writes, thrown |-> FALSE]
  ELSE IF ~Head(sizes).iterable THEN [m |-> m, writes |-> writes, thrown |-> TRUE]
  ELSE LET kw == <<Item(Head(sizes), 1), Item(Head(sizes), 2)>>
       IN BulkLoop(MapSet(m, kw[1], kw[2]), Tail(sizes), Append(writes, kw))

\* setColumWidth on arguments of any shape.
setColumWidth(m, a) ==
  IF a.form = "bulk" THEN BulkLoop(m, a.sizes, <<>>)
  ELSE IF a.index.type = "number" /\ a.width.type = "number"
  THEN [m |-> MapSet(m, a.index.val, a.width.val), writes |-> << <<a.index.val, a.width.val>> >>, thrown |-> FALSE]
  ELSE [m |-> m, writes |-> <<>>, thrown |-> FALSE]

\* --------------------------------------------------- generateSharedStringsXML
\* The for-of loop over this.strings from position k with accumulator acc,
\* run up to its next await: either a flush of a full batch (acc.length %
\* 5000 === 0, the batch size scaled to SstBatch) or the final write after
\* the loop, which carries what is left in acc and the closing tag.
\* (mutant: the accumulator cleared before the flush instead of after it)
RECURSIVE SstLoopMut(_, _, _)
SstLoopMut(strs, k, acc) ==
  IF k >= Len(strs)
  THEN [last |-> TRUE, k |-> k, content |-> Append(acc, Tok("sstClose", <<>>, "", "", <<>>))]
  ELSE LET pushed == Append(acc, Tok("si", <<>>, "", "", escapeXML(strs[k + 1])))
       IN IF Len(pushed) % SstBatch = 0
          THEN [last |-> FALSE, k |-> k + 1, content |-> <<>>]
          ELSE SstLoopMut(strs, k + 1, pushed)
\* (mutant: the write after the loop carries the closing tag only)
RECURSIVE SstLoopNoTail(_, _, _)
SstLoopNoTail(strs, k, acc) ==
  IF k >= Len(strs)
  THEN [last |-> TRUE, k |-> k, content |-> << Tok("sstClose", <<>>, "", "", <<>>) >>]
  ELSE LET pushed == Append(acc, Tok("si", <<>>, "", "", escapeXML(strs[k + 1])))
       IN IF Len(pushed) % SstBatch = 0
          THEN [last |-> FALSE, k |-> k + 1, content |-> pushed]
          ELSE SstLoopNoTail(strs, k + 1, pushed)
RECURSIVE SstLoop(_, _, _)
SstLoop(strs, k, acc) ==
  IF k >= Len(strs)
  THEN [last |-> TRUE, k |-> k, content |-> Append(acc, Tok("sstClose", <<>>, "", "", <<>>))]
  ELSE LET pushed == Append(acc, Tok("si", <<>>, "", "", escapeXML(strs[k + 1])))
       IN IF Len(pushed) % SstBatch = 0
          THEN [last |-> FALSE, k |-> k + 1, content |-> pushed]
          ELSE SstLoop(strs, k + 1, pushed)

SstHeader(strs) == << Tok("xmlDecl", <<>>, "", "", <<>>), Tok("sstOpen", <<>>, "", "", <<Len(strs), Len(strs)>>) >>

\* ------------------------------------------------------------------ Package
SheetPath == "xl/worksheets/sheet1.xml"
SstPath == "xl/sharedStrings.xml"
MockPaths == {"_rels/.rels", "xl/workbook.xml", "xl/_rels/workbook.xml.rels", "xl/styles.xml", "[Content_Types].xml"}

\* zip is a function from entry path to content.
ZipAdd(z, path, content) == (path :> content) @@ z

\* (mutant: the content-types part left out)
addMockFilesMut(z) == [p \in (MockPaths \ {"[Content_Types].xml"}) \cup DOMAIN z |-> IF p \in MockPaths THEN << Tok(p, <<>>, "", "", <<>>) >> ELSE z[p]]
addMockFiles(z) == [p \in MockPaths \cup DOMAIN z |-> IF p \in MockPaths THEN << Tok(p, <<>>, "", "", <<>>) >> ELSE z[p]]

\* The test of build() that decides whether the string table is generated.
\* (mutant: the part generated for an empty table too)
HasSharedStringsMut(strs) == size(strs) >= 0
HasSharedStrings(strs) == size(strs) > 0

\* -------------------------------------------------------------------- state
VARIABLES
  strings,          \* SharedStrings.strings
  stringIndexMap,   \* SharedStrings.stringIndexMap
  rows,             \* Sheet.rows
  columnWidths,     \* Sheet.columnWidths, in insertion order
  CHUNK_SIZE,       \* Sheet.CHUNK_SIZE, fixed per run
  zip,              \* Package.zip: entry path -> content
  disposable,       \* Package.disposable
  files,            \* the two temporary files: writes acknowledged so far
  ws,               \* the open write stream: its file and the writes in flight
  pc,               \* where build() is suspended
  i,                \* loop index of generateSheetXML / position in strings
  buffer,           \* what build() returned
  unlinks,          \* fs.unlink calls issued and not yet completed
  returned,         \* history: <<string, id>> of every add since the last destroy
  lastWidth,        \* history: last width written per column index (0: none)
  passed,           \* history: rows passed to addRow / addRows, in call order
  sizeAtStart,      \* history: size() when build() was called
  audit,            \* history: whether the callers' calls are counted
  nAddRow,          \* history: number of addRow calls
  nAddRows,         \* history: number of rows passed to addRows
  nWrites,          \* history: number of width writes per column index
  requested,        \* history: files dispose() called fs.unlink for
  console,          \* lines logged with console.error
  finished,         \* history: files whose stream emitted 'finish'
  checkedSize,      \* history: size() seen by the test of build(), -1 before it
  issued,           \* history: the writes issued on each file's stream, in call order
  widthOrder,       \* history: column indices in the order of their first width write
  thrown,           \* the error a sheet call threw to its caller, "none" so far
  valueType,        \* escapeXML: typeof its argument
  value,            \* escapeXML: its argument (for a number, the number in a 1-tuple)
  escaped,          \* escapeXML: its result, <<-1>> before the call
  cn                \* columnName: [input, index, column, pc]

vars == <<strings, stringIndexMap, rows, columnWidths, CHUNK_SIZE, zip, disposable, files, ws, pc, i, buffer, unlinks, returned, lastWidth, passed, sizeAtStart, audit, nAddRow, nAddRows, nWrites, requested, console, finished, checkedSize, issued, widthOrder, thrown, valueType, value, escaped, cn>>

rowVars == <<rows, passed, nAddRow, nAddRows>>
widthVars == <<columnWidths, lastWidth, nWrites, widthOrder>>
sheetVars == <<rowVars, widthVars, CHUNK_SIZE, audit, thrown>>
tableVars == <<strings, stringIndexMap, returned>>
buildVars == <<zip, disposable, files, ws, pc, i, buffer, unlinks, sizeAtStart, requested, console, finished, checkedSize, issued>>
pureVars == <<valueType, value, escaped, cn>>

SeqsUpTo(S, n) == UNION {[1..k -> S] : k \in 0..n}

NoFile == [exists |-> FALSE, content |-> <<>>]
CnIdle == [input |-> 0, index |-> 0, column |-> <<>>, pc |-> "idle"]

InitProgram ==
  /\ strings = <<>>
  /\ stringIndexMap = EmptyMap
  /\ rows = <<>>
  /\ columnWidths = <<>>
  /\ zip = EmptyMap
  /\ disposable = <<>>
  /\ files = [f \in {"sheet", "sst"} |-> NoFile]
  /\ ws = [file |-> "none", pending |-> <<>>, ended |-> FALSE]
  /\ pc = "idle"
  /\ i = 0
  /\ buffer = EmptyMap
  /\ unlinks = {}
  /\ returned = {}
  /\ lastWidth = [k \in WidthIndices |-> 0]
  /\ passed = <<>>
  /\ sizeAtStart = 0
  /\ nAddRow = 0
  /\ nAddRows = 0
  /\ nWrites = [k \in WidthIndices |-> 0]
  /\ thrown = "none"
  /\ widthOrder = <<>>
  /\ issued = [f \in {"sheet", "sst"} |-> <<>>]
  /\ checkedSize = -1
  /\ finished = {}
  /\ console = <<>>
  /\ requested = {}

Init ==
  /\ InitProgram
  /\ audit = FALSE
  /\ CHUNK_SIZE \in 1..MaxChunk
  /\ valueType = "string"
  /\ value = <<>>
  /\ escaped = <<-1>>
  /\ cn = CnIdle

Table == [strings |-> strings, stringIndexMap |-> stringIndexMap]

\* ---------------------------------------------------- callers' operations
\* The callers build the sheet and the table first and then call build();
\* they do not touch either while a build is suspended.

\* strings.add(str), called directly.
Add(str) ==
  /\ pc = "idle"
  /\ LET a == add(Table, str)
     IN /\ strings' = a.strings
        /\ stringIndexMap' = a.stringIndexMap
        /\ returned' = returned \cup {<<str, a.id>>}
  /\ UNCHANGED <<sheetVars, buildVars, pureVars>>

\* (mutant: the array emptied, the map left as it is)
DestroyMut ==
  /\ pc = "idle"
  /\ strings' = <<>>
  /\ returned' = {}
  /\ UNCHANGED <<stringIndexMap, sheetVars, buildVars, pureVars>>

\* strings.destroy()
Destroy ==
  /\ pc = "idle"
  /\ strings' = <<>>
  /\ stringIndexMap' = EmptyMap
  /\ returned' = {}
  /\ UNCHANGED <<sheetVars, buildVars, pureVars>>

\* sheet.addRow(row)
AddRow(row) ==
  /\ pc = "idle"
  /\ Len(rows) < MaxRows
  /\ rows' = addRow(rows, row)
  /\ passed' = Append(passed, row)
  /\ nAddRow' = IF audit THEN nAddRow + 1 ELSE nAddRow
  /\ UNCHANGED <<nAddRows, widthVars, CHUNK_SIZE, audit, thrown, tableVars, buildVars, pureVars>>

\* sheet.addRows(more)
AddRows(more) ==
  /\ pc = "idle"
  /\ Len(rows) + Len(more) <= MaxRows
  /\ rows' = addRows(rows, more)
  /\ passed' = passed \o more
  /\ nAddRows' = IF audit THEN nAddRows + Len(more) ELSE nAddRows
  /\ UNCHANGED <<nAddRow, widthVars, CHUNK_SIZE, audit, thrown, tableVars, buildVars, pureVars>>

\* The history of first writes: order extended by the indices of idxs that
\* were never written before, in call order.
RECURSIVE FirstWriteOrder(_, _)
FirstWriteOrder(order, idxs) ==
  IF idxs = <<>> THEN order
  ELSE FirstWriteOrder(IF Head(idxs) \in Range(order) THEN order ELSE Append(order, Head(idxs)), Tail(idxs))

\* sheet.setColumWidth(index, width)
SetColumWidth(index, width) ==
  /\ pc = "idle"
  /\ audit => nWrites[index] < MaxWrites
  /\ columnWidths' = setColumWidthOne(columnWidths, index, width)
  /\ lastWidth' = [lastWidth EXCEPT ![index] = width]
  /\ widthOrder' = FirstWriteOrder(widthOrder, <<index>>)
  /\ nWrites' = IF audit THEN [nWrites EXCEPT ![index] = @ + 1] ELSE nWrites
  /\ UNCHANGED <<rowVars, CHUNK_SIZE, audit, thrown, tableVars, buildVars, pureVars>>

\* Number of pairs of sizes that write column index k.
PairsFor(sizes, k) == Cardinality({n \in 1..Len(sizes) : sizes[n][1] = k})

\* sheet.setColumWidth(sizes)
SetColumWidths(sizes) ==
  /\ pc = "idle"
  /\ audit => \A k \in WidthIndices : nWrites[k] + PairsFor(sizes, k) <= MaxWrites
  /\ columnWidths' = setColumWidthBulk(columnWidths, sizes)
  /\ nWrites' = IF audit THEN [k \in WidthIndices |-> nWrites[k] + PairsFor(sizes, k)] ELSE nWrites
  /\ lastWidth' = [k \in WidthIndices |->
                     IF \E n \in 1..Len(sizes) : sizes[n][1] = k
                     THEN LET n == CHOOSE n \in 1..Len(sizes) : sizes[n][1] = k /\ \A m \in (n + 1)..Len(sizes) : sizes[m][1] # k
                          IN sizes[n][2]
                     ELSE lastWidth[k]]
  /\ widthOrder' = FirstWriteOrder(widthOrder, [n \in 1..Len(sizes) |-> sizes[n][1]])
  /\ UNCHANGED <<rowVars, CHUNK_SIZE, audit, thrown, tableVars, buildVars, pureVars>>

\* sheet.setColumWidth called with arguments a of the wrong shape.
SetColumWidthLoose(a) ==
  /\ pc = "idle"
  /\ LET r == setColumWidth(columnWidths, a)
         written(k) == {n \in 1..Len(r.writes) : r.writes[n][1] = k}
     IN /\ audit => \A k \in WidthIndices : nWrites[k] + Cardinality(written(k)) <= MaxWrites
        /\ columnWidths' = r.m
        /\ thrown' = IF r.thrown THEN "TypeError" ELSE thrown
        /\ nWrites' = IF audit THEN [k \in WidthIndices |-> nWrites[k] + Cardinality(written(k))] ELSE nWrites
        /\ lastWidth' = [k \in WidthIndices |->
                           IF written(k) = {} THEN lastWidth[k]
                           ELSE r.writes[CHOOSE n \in written(k) : \A o \in written(k) : o <= n][2]]
        /\ widthOrder' = FirstWriteOrder(widthOrder, [n \in 1..Len(r.writes) |-> r.writes[n][1]])
  /\ UNCHANGED <<rowVars, CHUNK_SIZE, audit, tableVars, buildVars, pureVars>>

\* ------------------------------------------------------------ write streams
\* promiseWrite: the callback of the write in flight fired without error
\* (its content is in the file) and the code ran on to its next write.
\* (mutant: the next write issued without awaiting the previous one)
AckThenWriteMut(content) ==
  /\ files' = files
  /\ ws' = [ws EXCEPT !.pending = Append(@, content)]
  /\ issued' = [issued EXCEPT ![ws.file] = Append(@, content)]
AckThenWrite(content) ==
  /\ files' = [files EXCEPT ![ws.file].content = Append(@, Head(ws.pending))]
  /\ ws' = [ws EXCEPT !.pending = Append(Tail(@), content)]
  /\ issued' = [issued EXCEPT ![ws.file] = Append(@, content)]

\* (mutant: the generator goes on to finishStream without awaiting its
\* last write)
AckThenEndMut ==
  /\ files' = files
  /\ ws' = [ws EXCEPT !.ended = TRUE]

\* finishStream: the last write was acknowledged and stream.end() is called.
AckThenEnd ==
  /\ files' = [files EXCEPT ![ws.file].content = Append(@, Head(ws.pending))]
  /\ ws' = [ws EXCEPT !.pending = Tail(@), !.ended = TRUE]

\* fs.createWriteStream(file) followed by the first write.
OpenStream(file, content) == [file |-> file, pending |-> <<content>>, ended |-> FALSE]

FileContent(f) == Concat(files[f].content)

SheetHeader == << Tok("xmlDecl", <<>>, "", "", <<>>), Tok("worksheetOpen", <<>>, "", "", <<>>) >>
\* (mutant: the entries written in numeric order of their index)
SheetColsMut(m) == << Tok("colsOpen", <<>>, "", "", <<>>) >> \o [n \in 1..Len(m) |-> mapper(SortSeq(m, LAMBDA a, b : a[1] < b[1])[n])] \o << Tok("colsClose", <<>>, "", "", <<>>) >>
SheetCols(m) == << Tok("colsOpen", <<>>, "", "", <<>>) >> \o [n \in 1..Len(m) |-> mapper(m[n])] \o << Tok("colsClose", <<>>, "", "", <<>>) >>

\* ------------------------------------------------------------ Package.build
\* build() up to the first await of generateSheetXML.
BuildStart ==
  /\ pc = "idle"
  /\ zip' = addMockFiles(zip)
  /\ files' = [files EXCEPT !["sheet"] = [exists |-> TRUE, content |-> <<>>]]
  /\ ws' = OpenStream("sheet", SheetHeader)
  /\ pc' = "sheet_header"
  /\ i' = 0
  /\ sizeAtStart' = size(strings)
  /\ issued' = [issued EXCEPT !["sheet"] = <<SheetHeader>>]
  /\ UNCHANGED <<disposable, buffer, unlinks, checkedSize, finished, console, requested, sheetVars, tableVars, pureVars>>

\* After the header: the column-width block if any width is set, else <sheetData>.
SheetHeaderWritten ==
  /\ pc = "sheet_header"
  /\ IF Len(columnWidths) > 0
     THEN AckThenWrite(SheetCols(columnWidths)) /\ pc' = "sheet_cols"
     ELSE AckThenWrite(<< Tok("sheetDataOpen", <<>>, "", "", <<>>) >>) /\ pc' = "sheet_data"
  /\ UNCHANGED <<zip, disposable, i, buffer, unlinks, sizeAtStart, requested, console, finished, checkedSize, sheetVars, tableVars, pureVars>>

SheetColsWritten ==
  /\ pc = "sheet_cols"
  /\ AckThenWrite(<< Tok("sheetDataOpen", <<>>, "", "", <<>>) >>)
  /\ pc' = "sheet_data"
  /\ UNCHANGED <<zip, disposable, i, buffer, unlinks, sizeAtStart, requested, console, finished, checkedSize, sheetVars, tableVars, pureVars>>

\* The chunk loop of generateSheetXML entered with index idx: writeChunk of
\* the next slice, or the closing write when the rows are exhausted.
SheetLoop(idx) ==
  /\ i' = idx
  /\ IF idx < Len(rows)
     THEN LET r == writeChunk(Slice(rows, idx, idx + CHUNK_SIZE), idx, Table)
          IN /\ strings' = r.tbl.strings
             /\ stringIndexMap' = r.tbl.stringIndexMap
             /\ returned' = returned \cup Range(r.calls)
             /\ AckThenWrite(r.chunks)
             /\ pc' = "sheet_chunk"
     ELSE /\ AckThenWrite(<< Tok("sheetEnd", <<>>, "", "", <<>>) >>)
          /\ pc' = "sheet_close"
          /\ UNCHANGED tableVars
  /\ UNCHANGED <<zip, disposable, buffer, unlinks, sizeAtStart, requested, console, finished, checkedSize, sheetVars, pureVars>>

SheetDataWritten == pc = "sheet_data" /\ SheetLoop(0)

SheetChunkWritten == pc = "sheet_chunk" /\ SheetLoop(i + CHUNK_SIZE)

SheetCloseWritten ==
  /\ pc = "sheet_close"
  /\ AckThenEnd
  /\ pc' = "sheet_finish"
  /\ UNCHANGED <<zip, disposable, i, buffer, unlinks, sizeAtStart, requested, console, finished, checkedSize, issued, sheetVars, tableVars, pureVars>>

\* zip.toBuffer(); dispose(); return buffer, with z and d the zip and the
\* disposable list at that point.
\* (mutant: the loop of dispose() stops before the last file)
FinishMut(z, d) ==
  /\ buffer' = z
  /\ unlinks' = Range(SubSeq(d, 1, Len(d) - 1))
  /\ requested' = Range(SubSeq(d, 1, Len(d) - 1))
  /\ pc' = "done"
Finish(z, d) ==
  /\ buffer' = z
  /\ unlinks' = Range(d)
  /\ requested' = Range(d)
  /\ pc' = "done"

\* The table build() tests with size() > 0: the table as it is after the
\* await of generateSheetXML().
\* (mutant: the test made before the await, on the table build() started with)
TestedTableMut == SubSeq(strings, 1, sizeAtStart)
TestedTable == strings

\* 'finish' of the worksheet stream: generateSheetXML returns its file,
\* build() adds it and either starts the string table or finishes.
SheetFinished ==
  /\ pc = "sheet_finish"
  /\ LET z == ZipAdd(zip, SheetPath, FileContent("sheet"))
         d == Append(disposable, "sheet")
     IN /\ zip' = z
        /\ disposable' = d
        /\ IF HasSharedStrings(TestedTable)
           THEN /\ files' = [files EXCEPT !["sst"] = [exists |-> TRUE, content |-> <<>>]]
                /\ ws' = OpenStream("sst", SstHeader(strings))
                /\ pc' = "sst_header"
                /\ issued' = [issued EXCEPT !["sst"] = <<SstHeader(strings)>>]
                /\ UNCHANGED <<buffer, unlinks, requested>>
           ELSE /\ Finish(z, d)
                /\ ws' = [file |-> "none", pending |-> <<>>, ended |-> FALSE]
                /\ UNCHANGED <<files, issued>>
  /\ i' = 0
  /\ finished' = finished \cup {"sheet"}
  /\ checkedSize' = size(TestedTable)
  /\ UNCHANGED <<sizeAtStart, console, sheetVars, tableVars, pureVars>>

\* The loop of generateSharedStringsXML resumed at position i.
SstResume ==
  LET r == SstLoop(strings, i, <<>>)
  IN /\ AckThenWrite(r.content)
     /\ i' = r.k
     /\ pc' = IF r.last THEN "sst_close" ELSE "sst_batch"
     /\ UNCHANGED <<zip, disposable, buffer, unlinks, sizeAtStart, requested, console, finished, checkedSize, sheetVars, tableVars, pureVars>>

SstHeaderWritten == pc = "sst_header" /\ SstResume

SstBatchWritten == pc = "sst_batch" /\ SstResume

SstCloseWritten ==
  /\ pc = "sst_close"
  /\ AckThenEnd
  /\ pc' = "sst_finish"
  /\ UNCHANGED <<zip, disposable, i, buffer, unlinks, sizeAtStart, requested, console, finished, checkedSize, issued, sheetVars, tableVars, pureVars>>

\* 'finish' of the string-table stream: build() adds the part and finishes.
SstFinished ==
  /\ pc = "sst_finish"
  /\ LET z == ZipAdd(zip, SstPath, FileContent("sst"))
         d == Append(disposable, "sst")
     IN /\ zip' = z
        /\ disposable' = d
        /\ Finish(z, d)
  /\ ws' = [file |-> "none", pending |-> <<>>, ended |-> FALSE]
  /\ finished' = finished \cup {"sst"}
  /\ UNCHANGED <<files, i, sizeAtStart, console, checkedSize, issued, sheetVars, tableVars, pureVars>>

WritePcs == {"sheet_header", "sheet_cols", "sheet_data", "sheet_chunk", "sheet_close", "sst_header", "sst_batch", "sst_close"}
FinishPcs == {"sheet_finish", "sst_finish"}

\* (mutant: the rejection empties the container)
WriteErrorMut ==
  /\ pc \in WritePcs
  /\ pc' = "rejected"
  /\ ws' = [ws EXCEPT !.pending = <<>>]
  /\ zip' = EmptyMap
  /\ UNCHANGED <<disposable, files, i, buffer, unlinks, sizeAtStart, requested, console, finished, checkedSize, issued, sheetVars, tableVars, pureVars>>

\* The write callback fires with an error: the promise rejects and the
\* rejection propagates through the generator and build().
WriteError ==
  /\ pc \in WritePcs
  /\ pc' = "rejected"
  /\ ws' = [ws EXCEPT !.pending = <<>>]
  /\ UNCHANGED <<zip, disposable, files, i, buffer, unlinks, sizeAtStart, requested, console, finished, checkedSize, issued, sheetVars, tableVars, pureVars>>

\* 'error' instead of 'finish' after stream.end().
FinishError ==
  /\ pc \in FinishPcs
  /\ pc' = "rejected"
  /\ UNCHANGED <<zip, disposable, files, ws, i, buffer, unlinks, sizeAtStart, requested, console, finished, checkedSize, issued, sheetVars, tableVars, pureVars>>

\* Completion of an fs.unlink issued by dispose(); its callback () => {}
\* ignores the outcome: nothing is logged and nothing is thrown.
UnlinkDone(f) ==
  /\ f \in unlinks
  /\ unlinks' = unlinks \ {f}
  /\ files' = [files EXCEPT ![f] = NoFile]
  /\ UNCHANGED <<zip, disposable, ws, pc, i, buffer, sizeAtStart, requested, console, finished, checkedSize, issued, sheetVars, tableVars, pureVars>>

UnlinkFail(f) ==
  /\ f \in unlinks
  /\ unlinks' = unlinks \ {f}
  /\ UNCHANGED <<zip, disposable, files, ws, pc, i, buffer, sizeAtStart, requested, console, finished, checkedSize, issued, sheetVars, tableVars, pureVars>>

Next ==
  \/ \E str \in TextPool : Add(str)
  \/ Destroy
  \/ \E row \in RowPool : AddRow(row)
  \/ \E more \in RowsPool : AddRows(more)
  \/ \E index \in WidthIndices, width \in Widths : SetColumWidth(index, width)
  \/ \E sizes \in SizesPool : SetColumWidths(sizes)
  \/ BuildStart
  \/ SheetHeaderWritten
  \/ SheetColsWritten
  \/ SheetDataWritten
  \/ SheetChunkWritten
  \/ SheetCloseWritten
  \/ SheetFinished
  \/ SstHeaderWritten
  \/ SstBatchWritten
  \/ SstCloseWritten
  \/ SstFinished
  \/ WriteError
  \/ FinishError
  \/ \E f \in {"sheet", "sst"} : UnlinkDone(f)
  \/ \E f \in {"sheet", "sst"} : UnlinkFail(f)

Spec == Init /\ [][Next]_vars

\* ------------------------------------------------- escapeXML on its own
\* Characters fed to escapeXML: control characters and their neighbours
\* (0x00, 0x01, 0x09, 0x1F | 0x20; 0x7E | 0x7F | 0x80), the five entity
\* characters, '?', the backslash, a letter, ';' and a non-ASCII letter.
EscChars == {0, 1, 9, 31, 32, 126, 127, 128, 34, 38, 39, 60, 62, 63, 92, 97, 59, 233}

\* Numbers fed to escapeXML: 38 and 92 are the codes of '&' and of the
\* backslash, so that a number handled as text would show.
EscNumbers == {0, 38, 92}

InitEscape ==
  /\ InitProgram
  /\ audit = FALSE
  /\ CHUNK_SIZE = 1
  /\ \/ valueType = "string" /\ value \in SeqsUpTo(EscChars, MaxEscLen)
     \/ valueType = "number" /\ value \in {<<n>> : n \in EscNumbers}
  /\ escaped = <<-1>>
  /\ cn = CnIdle

EscapeXML ==
  /\ escaped = <<-1>>
  /\ escaped' = IF valueType # "string" THEN value ELSE escapeXML(value)
  /\ UNCHANGED <<valueType, value, cn, sheetVars, tableVars, buildVars>>

NextEscape == EscapeXML

SpecEscape == InitEscape /\ [][NextEscape]_vars

\* ------------------------------------------------ columnName on its own
InitColumn ==
  /\ InitProgram
  /\ audit = FALSE
  /\ CHUNK_SIZE = 1
  /\ valueType = "string"
  /\ value = <<>>
  /\ escaped = <<-1>>
  /\ \E index \in 0..MaxColIndex : cn = [input |-> index, index |-> index, column |-> <<>>, pc |-> "loop"]

\* One iteration of while (index >= 0).
ColumnIter ==
  /\ cn.pc = "loop"
  /\ cn.index >= 0
  /\ cn' = [cn EXCEPT !.index = ColumnStep([index |-> cn.index, column |-> cn.column]).index,
                      !.column = ColumnStep([index |-> cn.index, column |-> cn.column]).column]
  /\ UNCHANGED <<valueType, value, escaped, sheetVars, tableVars, buildVars>>

\* The loop test fails: return column.
ColumnReturn ==
  /\ cn.pc = "loop"
  /\ cn.index < 0
  /\ cn' = [cn EXCEPT !.pc = "done"]
  /\ UNCHANGED <<valueType, value, escaped, sheetVars, tableVars, buildVars>>

NextColumn == ColumnIter \/ ColumnReturn

\* The loop is synchronous code: it keeps running while it can.
SpecColumn == InitColumn /\ [][NextColumn]_vars /\ WF_vars(NextColumn)

\* ------------------------------------- the Sheet's buffer calls on their own
\* The callers' calls on one Sheet, counted.
InitSheet ==
  /\ InitProgram
  /\ audit = TRUE
  /\ CHUNK_SIZE = 1
  /\ valueType = "string"
  /\ value = <<>>
  /\ escaped = <<-1>>
  /\ cn = CnIdle

NextSheet ==
  \/ \E row \in RowPool : AddRow(row)
  \/ \E more \in RowsPool : AddRows(more)
  \/ \E index \in WidthIndices, width \in Widths : SetColumWidth(index, width)
  \/ \E sizes \in SizesPool : SetColumWidths(sizes)
  \/ \E a \in LooseCalls : SetColumWidthLoose(a)

SpecSheet == InitSheet /\ [][NextSheet]_vars

\* ------------------------------------ the SharedStrings table on its own
\* Strings passed to add: "", "a&", "true", "undefined" and "a".
TablePool == {TxtEmpty, TxtAmp, TxtTrue, TxtUndefined, <<97>>}

InitTable ==
  /\ InitProgram
  /\ audit = FALSE
  /\ CHUNK_SIZE = 1
  /\ valueType = "string"
  /\ value = <<>>
  /\ escaped = <<-1>>
  /\ cn = CnIdle

NextTable ==
  \/ \E str \in TablePool : Add(str)
  \/ Destroy

SpecTable == InitTable /\ [][NextTable]_vars

\* =================================================================== claims
\* ------------------------------------------------------- reading the output
IsRowToken(t) == t.tag \in {"rowOpen", "c", "rowClose"}
RowTokens(toks) == SelectSeq(toks, IsRowToken)

IsSi(t) == t.tag = "si"
SiEntries(toks) == SelectSeq(toks, IsSi)

\* Position, among the row tokens, of the opening token of the row at buffer
\* position p - 1 (each row takes its cells and two tokens).
RECURSIVE RowStart(_)
RowStart(p) == IF p <= 1 THEN 1 ELSE RowStart(p - 1) + Len(rows[p - 1]) + 2

CellPositions == {pc_ \in (1..Len(rows)) \X (1..4) : pc_[2] <= Len(rows[pc_[1]])}

IsTextCell(cell) == cell.kind \notin {"null", "undefined", "number", "date"}
TextOf(cell) == IF cell.kind = "string" THEN cell.text ELSE JsString(cell)

\* The cell element emitted for rows[p][c], or a token no code emits when the
\* output is too short.
CellTokenAt(rt, p, c) == IF RowStart(p) + c <= Len(rt) THEN rt[RowStart(p) + c] ELSE Tok("missing", <<>>, "", "", <<>>)

\* Nesting depth of the row tokens of one write after its first n tokens.
RECURSIVE Depth(_, _)
Depth(rt, n) == IF n = 0 THEN 0 ELSE Depth(rt, n - 1) + (IF rt[n].tag = "rowOpen" THEN 1 ELSE IF rt[n].tag = "rowClose" THEN -1 ELSE 0)

\* A write holds whole rows only: it never starts or ends inside a row.
WholeRows(w) ==
  LET rt == RowTokens(w)
  IN /\ Depth(rt, Len(rt)) = 0
     /\ \A n \in 1..Len(rt) : /\ Depth(rt, n) \in {0, 1}
                              /\ rt[n].tag = "c" => Depth(rt, n) = 1

SheetWrites == files["sheet"].content \o (IF ws.file = "sheet" THEN ws.pending ELSE <<>>)

\* ----------------------------------------------------------------------- C1
\* C1: over the add calls made since the table was created or last destroyed
\* (direct calls and those of worksheet generation), the same string always
\* got the same id, different strings got different ids, and size() is the
\* number of distinct strings added.
C1_DedupIds ==
  /\ \A a \in returned, b \in returned : (a[1] = b[1]) <=> (a[2] = b[2])
  /\ size(strings) = Cardinality({a[1] : a \in returned})

\* A build over a table that already held "true" added it twice more (as a
\* string and as String(true)) and added "a&" twice.
C1_Witness ==
  /\ pc = "done"
  /\ sizeAtStart = 1
  /\ rows = <<RowTrue, RowAmp, RowAmp>> \/ rows = <<RowTrue, RowAmp>>
  /\ returned = {<<TxtTrue, 0>>, <<TxtAmp, 1>>}

\* ----------------------------------------------------------------------- C2
\* C2: in the package a build returned, every shared-string cell of the
\* worksheet part carries an id within the entries of the string-table part
\* of the same package, and the entry at that position is the escaped text
\* of the cell (its string, or String(cell) for a coerced value).
C2_IdsResolve ==
  pc = "done" =>
    LET rt == RowTokens(buffer[SheetPath])
        entries == IF SstPath \in DOMAIN buffer THEN SiEntries(buffer[SstPath]) ELSE <<>>
    IN /\ \A n \in 1..Len(rt) : (rt[n].tag = "c" /\ rt[n].t = "s") => (Len(rt[n].v) = 1 /\ rt[n].v[1] \in 0..(Len(entries) - 1))
       /\ \A p \in CellPositions :
            IsTextCell(rows[p[1]][p[2]]) =>
              LET tok == CellTokenAt(rt, p[1], p[2])
              IN /\ tok.tag = "c" /\ tok.t = "s" /\ Len(tok.v) = 1
                 /\ tok.v[1] \in 0..(Len(entries) - 1)
                 /\ entries[tok.v[1] + 1].v = escapeXML(TextOf(rows[p[1]][p[2]]))

\* A package whose worksheet refers to "a&" by id 1, behind a string added
\* directly, in a table of three entries.
C2_Witness ==
  /\ pc = "done"
  /\ SstPath \in DOMAIN buffer
  /\ sizeAtStart = 1
  /\ Len(SiEntries(buffer[SstPath])) = 3
  /\ \E p \in CellPositions : rows[p[1]][p[2]] = CStr(TxtAmp) /\ CellTokenAt(RowTokens(buffer[SheetPath]), p[1], p[2]).v = <<1>>

\* ----------------------------------------------------------------------- C3
NoTextCells == \A p \in CellPositions : rows[p[1]][p[2]].kind \in {"null", "number", "date"}

\* C3 as stated: if every cell of every buffered row is null, a number or a
\* date, the returned container has no xl/sharedStrings.xml part.
C3_Original == (pc = "done" /\ NoTextCells) => SstPath \notin DOMAIN buffer

\* C3 amended: if every cell of every buffered row is null, a number or a
\* date and the table held no string when build() was called, the returned
\* container has no xl/sharedStrings.xml part.
C3_NoTextNoPart == (pc = "done" /\ NoTextCells /\ sizeAtStart = 0) => SstPath \notin DOMAIN buffer

\* A build over an empty table and a row of a date and a number.
C3_Witness ==
  /\ pc = "done"
  /\ sizeAtStart = 0
  /\ Len(rows) >= 1
  /\ NoTextCells
  /\ \E p \in CellPositions : rows[p[1]][p[2]].kind = "date"
  /\ SstPath \notin DOMAIN buffer

\* ----------------------------------------------------------------------- C4
\* C4: the container a successful build returns holds the five fixed parts,
\* the worksheet part and, exactly when size() > 0 at the test after
\* worksheet generation (the table does not change from there to the
\* return), the string-table part; nothing else.
C4_ExactParts ==
  pc = "done" =>
    DOMAIN buffer = {"_rels/.rels", "xl/workbook.xml", "xl/_rels/workbook.xml.rels", "xl/styles.xml", "[Content_Types].xml", "xl/worksheets/sheet1.xml"}
                      \cup (IF size(strings) > 0 THEN {"xl/sharedStrings.xml"} ELSE {})

\* A returned container with the string-table part.
C4_Witness ==
  /\ pc = "done"
  /\ size(strings) > 0
  /\ Cardinality(DOMAIN buffer) = 7

\* ----------------------------------------------------------------------- C5
\* The worksheet content holds one row element per buffered row, in buffer
\* order, numbered from 1, each with one cell per column referenced by
\* columnName(column index) and the row number.
RowsEmitted(toks) ==
  LET rt == RowTokens(toks)
  IN /\ Len(rt) = RowStart(Len(rows) + 1) - 1
     /\ \A p \in 1..Len(rows) :
          /\ rt[RowStart(p)].tag = "rowOpen"
          /\ rt[RowStart(p)].r = <<p>>
          /\ rt[RowStart(p) + Len(rows[p]) + 1].tag = "rowClose"
          /\ \A c \in 1..Len(rows[p]) :
               /\ rt[RowStart(p) + c].tag = "c"
               /\ rt[RowStart(p) + c].r = <<columnName(c - 1), p>>

\* C5: for every batch size, the generated worksheet holds exactly one row
\* element per buffered row, in buffer order, the row at position p numbered
\* p + 1 and its cell at column c referenced columnName(c) and p + 1; every
\* write holds whole rows only.
C5_RowsInOrder ==
  /\ \A n \in 1..Len(SheetWrites) : WholeRows(SheetWrites[n])
  /\ pc \in {"sheet_finish"} => RowsEmitted(Concat(SheetWrites))
  /\ SheetPath \in DOMAIN zip => RowsEmitted(zip[SheetPath])

\* Two rows written one per batch.
C5_Witness ==
  /\ SheetPath \in DOMAIN zip
  /\ CHUNK_SIZE = 1
  /\ rows = <<RowBlank, RowAmp>>
  /\ Len(files["sheet"].content) = 5

\* ----------------------------------------------------------------------- C6
\* C6: every cell yields exactly one cell element, chosen by its type: null
\* or undefined gives a reference only; a string gives a shared-string cell
\* whose value is the id of the string in the table; a number gives an
\* untyped cell with the number; a Date gives a numeric cell with style 1;
\* anything else gives a shared-string cell for String(cell).  The element
\* of a null cell thereby differs from those of 0 and of "".
C6_CellDispatch ==
  SheetPath \in DOMAIN zip =>
    LET rt == RowTokens(zip[SheetPath])
        el(p) == [CellTokenAt(rt, p[1], p[2]) EXCEPT !.r = <<>>]
    IN /\ Cardinality({n \in 1..Len(rt) : rt[n].tag = "c"}) = Cardinality(CellPositions)
       /\ \A p \in CellPositions :
            LET cell == rows[p[1]][p[2]]
                tok == CellTokenAt(rt, p[1], p[2])
            IN /\ tok.tag = "c"
               /\ cell.kind \in {"null", "undefined"} => (tok.t = "" /\ tok.s = "" /\ tok.v = <<>>)
               /\ cell.kind = "number" => (tok.t = "" /\ tok.s = "" /\ tok.v = <<cell.num>>)
               /\ cell.kind = "date" => (tok.t = "" /\ tok.s = "1" /\ Len(tok.v) = 2)
               /\ IsTextCell(cell) => /\ tok.t = "s" /\ tok.s = "" /\ Len(tok.v) = 1
                                      /\ tok.v[1] \in 0..(size(strings) - 1)
                                      /\ strings[tok.v[1] + 1] = TextOf(cell)
       /\ \A p \in CellPositions, q \in CellPositions :
            (rows[p[1]][p[2]].kind = "null" /\ rows[q[1]][q[2]] \in {CNum(0), CStr(TxtEmpty)}) => el(p) # el(q)

\* A worksheet generated from a null, a zero, an empty string, a boolean, a
\* string and a Date.
C6_Witness ==
  /\ SheetPath \in DOMAIN zip
  /\ rows = <<RowBlank, RowTrue>>

\* ----------------------------------------------------------------------- C7
\* The entity the claim names for each of the five characters.
XmlEntity(ch) ==
  CASE ch = 38 -> <<38, 97, 109, 112, 59>>
    [] ch = 60 -> <<38, 108, 116, 59>>
    [] ch = 62 -> <<38, 103, 116, 59>>
    [] ch = 34 -> <<38, 113, 117, 111, 116, 59>>
    [] ch = 39 -> <<38, 97, 112, 111, 115, 59>>

StartsAt(s, n, e) == n + Len(e) - 1 <= Len(s) /\ SubSeq(s, n, n + Len(e) - 1) = e

\* C7: the result of escapeXML holds no raw < > " ' and no control character
\* (0x00-0x1F, 0x7F), every & in it starts one of the five entities, and the
\* result is the concatenation, character by character, of '?' for each
\* control character, the entity for each of & < > " ' and, for any other
\* character, what escapeXML makes of that character alone.
C7_EscapeXML ==
  (escaped # <<-1>> /\ valueType = "string") =>
    /\ \A n \in 1..Len(escaped) : escaped[n] \notin {60, 62, 34, 39} \cup (0..31) \cup {127}
    /\ \A n \in 1..Len(escaped) : escaped[n] = 38 => \E ch \in {38, 60, 62, 34, 39} : StartsAt(escaped, n, XmlEntity(ch))
    /\ escaped = Concat([n \in 1..Len(value) |->
                   IF value[n] \in {38, 60, 62, 34, 39} THEN XmlEntity(value[n])
                   ELSE IF value[n] \in (0..31) \cup {127} THEN <<63>>
                   ELSE escapeXML(<<value[n]>>)])

\* "\x01<" escaped to "?&lt;".
C7_Witness == valueType = "string" /\ value = <<1, 60>> /\ escaped = <<63, 38, 108, 116, 59>>

\* ----------------------------------------------------------------------- C8
\* C8: the width held for a column index is the width of the last write for
\* that index, the pairs of a bulk call counting in list order; an index
\* never written has no width.
C8_LastWriteWins == \A k \in WidthIndices : MapGet(columnWidths, k) = lastWidth[k] /\ Cardinality({n \in 1..Len(columnWidths) : columnWidths[n][1] = k}) <= 1

\* Column 0 written three times, last with 20, and column 1 once.
C8_Witness == nWrites[0] = 3 /\ nWrites[1] >= 1 /\ lastWidth[0] = 20 /\ columnWidths[2][1] = 0

\* ----------------------------------------------------------------------- C9
\* C9: rowsCount() is the number of addRow calls plus the number of rows
\* passed to addRows, and the buffer is the rows passed, in call order.
C9_AppendOnly == rowsCount(rows) = nAddRow + nAddRows /\ rows = passed

\* One addRow and then one addRows of a different row.
C9_Witness == nAddRow = 1 /\ nAddRows >= 1 /\ Len(rows) >= 2 /\ rows[1] # rows[2]

\* ---------------------------------------------------------------------- C10
\* The number a name denotes in bijective base 26 (A = 1 ... Z = 26).
RECURSIVE BijectiveValue(_)
BijectiveValue(name) == IF name = <<>> THEN 0 ELSE 26 * BijectiveValue(SubSeq(name, 1, Len(name) - 1)) + (name[Len(name)] - 64)

C10_Names ==
  cn.pc = "done" =>
    /\ cn.input = 0 => cn.column = <<65>>
    /\ cn.input = 25 => cn.column = <<90>>
    /\ cn.input = 26 => cn.column = <<65, 65>>
    /\ cn.input = 701 => cn.column = <<90, 90>>
    /\ cn.input = 702 => cn.column = <<65, 65, 65>>
    /\ \A n \in 1..Len(cn.column) : cn.column[n] \in 65..90
    /\ BijectiveValue(cn.column) = cn.input + 1
    /\ \A other \in 0..MaxColIndex : other # cn.input => columnName(other) # cn.column
    /\ getExcelColumn(cn.input) = cn.column

\* C10: columnName terminates for every non-negative index and returns the
\* bijective base-26 name of index + 1 ("A", "Z", "AA", "ZZ", "AAA" for 0,
\* 25, 26, 701, 702); no two indices share a name; the lookup through the
\* table precomputed below 702 returns the same name as the loop.
C10_ColumnName == []C10_Names /\ <>(cn.pc = "done")

\* The loop returned "AAA" for 702, the first index past the table.
C10_Witness == cn.pc = "done" /\ cn.input = 702 /\ cn.column = <<65, 65, 65>>

\* ---------------------------------------------------------------------- C11
\* The date cells of the worksheet with their positions <<row, column>>.
DateCells == {p \in CellPositions : rows[p[1]][p[2]].kind = "date"}

\* v is the serial of a date at day d since 1970 and ms milliseconds into
\* that day: a multiple of 0.00001 days at most half a unit (432 ms) away
\* from (timestamp - epoch) / 86400000, the epoch being 1899-12-30.
IsSerialOf(v, d, ms) ==
  /\ Len(v) = 2
  /\ v[2] \in 0..99999
  /\ LET units == (v[1] - (d + 25569)) * 100000 + v[2]
     IN /\ units \in 0..100000
        /\ 2 * (ms - 864 * units) \in (0 - 864)..864

\* C11: the serial number emitted for a date cell is the date's timestamp
\* minus the epoch, in days, rounded to 5 decimals, and so depends on the
\* timestamp only: two date cells with the same timestamp carry the same
\* value whatever their row, column or row batch.
C11_SerialByTimestamp ==
  SheetPath \in DOMAIN zip =>
    LET rt == RowTokens(zip[SheetPath])
        serial(p) == CellTokenAt(rt, p[1], p[2]).v
        stamp(p) == <<rows[p[1]][p[2]].num, rows[p[1]][p[2]].ms>>
    IN /\ \A p \in DateCells : IsSerialOf(serial(p), stamp(p)[1], stamp(p)[2])
       /\ \A p \in DateCells, q \in DateCells : stamp(p) = stamp(q) => serial(p) = serial(q)

\* A worksheet written in batches of one row holds the same date in column
\* C of row 1 and in column D of row 2, next to a different date.
C11_Witness ==
  /\ SheetPath \in DOMAIN zip
  /\ CHUNK_SIZE = 1
  /\ rows = <<RowTrue, RowNumeric>>
  /\ rows[1][3] = rows[2][4]
  /\ rows[2][1] # rows[2][4]

\* ---------------------------------------------------------------------- C12
\* The temporary files build() added to the container as input.
Inputs == Range(disposable)

\* The claim as stated: when build() has delivered its buffer, none of the
\* temporary files it added to the container exists any more.
C12_Original == pc = "done" => \A f \in Inputs : ~files[f].exists

\* C12 (amended): when build() delivers its buffer, fs.unlink has been
\* called for every temporary file build added to the container (the
\* worksheet file, and the string-table file when it was generated); the
\* calls are made only after the container was serialized to the buffer,
\* and a file is gone only through such a call, which completes after the
\* delivery.
C12_DeletionRequested ==
  /\ pc = "done" => /\ requested = Inputs
                    /\ Inputs = {"sheet"} \cup (IF SstPath \in DOMAIN zip THEN {"sst"} ELSE {})
  /\ unlinks \subseteq requested
  /\ requested # {} => (pc = "done" /\ buffer = zip /\ SheetPath \in DOMAIN buffer)
  /\ \A f \in Inputs : ~files[f].exists => f \in requested \ unlinks

\* The buffer was delivered with both parts; the worksheet file is deleted
\* and the deletion of the string-table file is still under way.
C12_Witness ==
  /\ pc = "done"
  /\ SstPath \in DOMAIN buffer
  /\ unlinks = {"sst"}
  /\ ~files["sheet"].exists
  /\ files["sst"].exists

\* ---------------------------------------------------------------------- C13
\* The temporary files whose deletion failed.
FailedUnlinks == {f \in requested \ unlinks : files[f].exists}

\* The claim as stated: a failed deletion is logged, and build() has
\* resolved with the serialized container all the same.
C13_Original ==
  \A f \in FailedUnlinks : /\ \E n \in 1..Len(console) : console[n] = f
                           /\ pc = "done"
                           /\ buffer = zip

\* ---------------------------------------------------------------------- C14
\* C14: when a write of the worksheet or of the string-table generator
\* fails, build() rejects without a buffer: the failing step changes
\* neither the container nor the files, nothing of that build runs after
\* it (no write, no generation step, no cleanup), and the parts added
\* before the failure (the static parts, and the worksheet when the string
\* table failed) stay in the container.
C14_WriteFailure ==
  /\ [][(pc \in WritePcs /\ pc' = "rejected") =>
          (zip' = zip /\ files' = files /\ disposable' = disposable /\ buffer' = EmptyMap /\ ws'.pending = <<>>)]_vars
  /\ [][pc = "rejected" => UNCHANGED vars]_vars
  /\ [](pc = "rejected" => /\ buffer = EmptyMap
                           /\ requested = {}
                           /\ MockPaths \subseteq DOMAIN zip
                           /\ SstPath \notin DOMAIN zip
                           /\ ws.file = "sst" => (SheetPath \in DOMAIN zip /\ disposable = <<"sheet">>))

\* A write of the string-table generator failed after its header was
\* written: the worksheet part is in the container, no buffer exists.
C14_Witness ==
  /\ pc = "rejected"
  /\ ws.file = "sst"
  /\ ~ws.ended
  /\ Len(files["sst"].content) = 1
  /\ SheetPath \in DOMAIN zip
  /\ buffer = EmptyMap

\* ---------------------------------------------------------------------- C15
\* Worksheet generation has completed: its stream emitted 'finish' and the
\* part read from its file holds every buffered row and the closing write.
SheetGenerated ==
  /\ "sheet" \in finished
  /\ SheetPath \in DOMAIN zip
  /\ RowsEmitted(zip[SheetPath])
  /\ zip[SheetPath][Len(zip[SheetPath])].tag = "sheetEnd"

\* String-table generation has started.
SstStarted ==
  \/ pc \in {"sst_header", "sst_batch", "sst_close", "sst_finish"}
  \/ ws.file = "sst"
  \/ files["sst"].exists
  \/ "sst" \in Inputs \cup finished

\* C15: within one build(), string-table generation starts only after
\* worksheet generation has completed (all row batches written, the
\* stream finished), and the size() > 0 test is made only then, on the
\* table holding every string of the worksheet.
C15_SheetBeforeSst ==
  /\ SstStarted => SheetGenerated
  /\ checkedSize # -1 => (SheetGenerated /\ checkedSize = size(strings))
  /\ SstStarted => checkedSize > 0

\* The table was empty when build() was called; two batches of one row put
\* two strings in it, and the string-table generator wrote its header.
C15_Witness ==
  /\ pc = "sst_header"
  /\ CHUNK_SIZE = 1
  /\ rows = <<RowTrue, RowAmp>>
  /\ sizeAtStart = 0
  /\ checkedSize = 2

\* ---------------------------------------------------------------------- C16
IsPrefix(a, b) == Len(a) <= Len(b) /\ SubSeq(b, 1, Len(a)) = a

\* The writes that reached the stream of file f: those acknowledged (in the
\* file) followed by those outstanding.
Reached(f) == files[f].content \o (IF ws.file = f THEN ws.pending ELSE <<>>)

\* C16: during worksheet and string-table generation at most one write is
\* outstanding on the output stream, a write is issued only when every
\* earlier write on that stream is acknowledged, and the writes reach the
\* stream in the order they were issued.
C16_OneWriteAtATime ==
  /\ [](Len(ws.pending) <= 1)
  /\ [](\A f \in {"sheet", "sst"} : files[f].exists =>
           /\ IsPrefix(Reached(f), issued[f])
           /\ pc # "rejected" => Reached(f) = issued[f])
  /\ [][\A f \in {"sheet", "sst"} : Len(issued'[f]) > Len(issued[f]) =>
          (Len(issued'[f]) = Len(issued[f]) + 1 /\ files'[f].content = issued[f])]_vars

\* The second row batch is outstanding and the three writes before it are
\* in the file.
C16_Witness ==
  /\ pc = "sheet_chunk"
  /\ Len(issued["sheet"]) = 4
  /\ Len(files["sheet"].content) = 3
  /\ ws.pending = <<issued["sheet"][4]>>

\* ---------------------------------------------------------------------- C17
\* The generated parts and the temporary files they are read from.
GeneratedParts == {<<SheetPath, "sheet">>, <<SstPath, "sst">>}

\* C17: build() adds a generated part only after the generator's stream
\* was finalized: the 'finish' event comes when every write issued is
\* acknowledged and end() was called, the generator returns its file (and
\* build reads it) only then, and the part read holds every write issued.
C17_ReadAfterFinish ==
  /\ [](\A g \in GeneratedParts :
           /\ (g[1] \in DOMAIN zip \/ g[2] \in Inputs) => g[2] \in finished
           /\ g[2] \in finished => (ws.file # g[2] /\ g[1] \in DOMAIN zip)
           /\ g[1] \in DOMAIN zip => zip[g[1]] = Concat(issued[g[2]]))
  /\ [][\A f \in finished' \ finished :
          /\ ws.file = f
          /\ ws.ended
          /\ ws.pending = <<>>
          /\ files[f].content = issued[f]]_vars

\* Both generators ran and both parts were added, the string table written
\* in more than one batch.
C17_Witness ==
  /\ finished = {"sheet", "sst"}
  /\ SheetPath \in DOMAIN zip
  /\ SstPath \in DOMAIN zip
  /\ Len(issued["sst"]) >= 3
  /\ Len(issued["sheet"]) >= 4

\* ---------------------------------------------------------------------- C18
\* The entry element of the string-table part for the text str.
SiFor(str) == Tok("si", <<>>, "", "", escapeXML(str))
SstClose == Tok("sstClose", <<>>, "", "", <<>>)

\* The writes w that follow the header hold, for the table strs, one entry
\* per string in insertion order and then the closing tag, every write but
\* the last being one full batch of entries and the last one holding the
\* entries left over (none when the table is a whole number of batches).
InBatches(w, strs) ==
  /\ Concat(w) = [k \in 1..Len(strs) |-> SiFor(strs[k])] \o <<SstClose>>
  /\ Len(w) = (Len(strs) \div SstBatch) + 1
  /\ \A j \in 1..(Len(w) - 1) : Len(w[j]) = SstBatch
  /\ Len(w[Len(w)]) = (Len(strs) % SstBatch) + 1

\* C18: for a table of n entries generateSharedStringsXML writes, between
\* the header and the closing tag, exactly the n entries, each once and in
\* insertion order, in batches of at most SstBatch whole entries, the last
\* partial batch included; an empty table gives the closing tag alone.
C18_EntriesInBatches ==
  /\ SstLoop(<<>>, 0, <<>>) = [last |-> TRUE, k |-> 0, content |-> <<SstClose>>]
  /\ SstPath \in DOMAIN zip =>
       LET w == issued["sst"]
       IN /\ Len(w) >= 2
          /\ w[1] = SstHeader(strings)
          /\ InBatches(SubSeq(w, 2, Len(w)), strings)
          /\ zip[SstPath] = Concat(w)

\* A table of exactly one batch: the batch is flushed inside the loop and
\* the last write holds the closing tag only.
C18_Witness ==
  /\ SstPath \in DOMAIN zip
  /\ Len(strings) = SstBatch
  /\ Len(issued["sst"]) = 3
  /\ Len(issued["sst"][2]) = SstBatch
  /\ issued["sst"][3] = <<SstClose>>

\* ---------------------------------------------------------------------- C19
\* The column-width entry for column index k with width w.
ColFor(k, w) == Tok("col", <<>>, "", "", <<k + 1, k + 1, w>>)

ColsTags == {"colsOpen", "col", "colsClose"}

\* C19: the worksheet holds a column-width block if and only if at least
\* one width was set; the block comes right after the document header and
\* right before the opening of the row data, and holds exactly one entry
\* per index written, in the order of the first write of each index, with
\* the width last written for it.
C19_ColsBlock ==
  SheetPath \in DOMAIN zip =>
    LET toks == zip[SheetPath]
        n == Len(widthOrder)
    IN /\ Len(toks) >= 3
       /\ toks[1].tag = "xmlDecl" /\ toks[2].tag = "worksheetOpen"
       /\ Cardinality({j \in 1..Len(toks) : toks[j].tag = "sheetDataOpen"}) = 1
       /\ IF n = 0
          THEN /\ \A j \in 1..Len(toks) : toks[j].tag \notin ColsTags
               /\ toks[3].tag = "sheetDataOpen"
          ELSE /\ Len(toks) >= n + 5
               /\ toks[3].tag = "colsOpen"
               /\ \A j \in 1..n : toks[3 + j] = ColFor(widthOrder[j], lastWidth[widthOrder[j]])
               /\ toks[n + 4].tag = "colsClose"
               /\ toks[n + 5].tag = "sheetDataOpen"
               /\ \A j \in 1..Len(toks) : toks[j].tag \in ColsTags => j \in 3..(n + 4)
               /\ issued["sheet"][2] = SubSeq(toks, 3, n + 4)

\* A worksheet with rows whose widths were set for column 1 first and
\* column 0 second, with different widths.
C19_Witness ==
  /\ SheetPath \in DOMAIN zip
  /\ widthOrder = <<1, 0>>
  /\ lastWidth[1] # lastWidth[0]
  /\ Len(rows) > 0

\* ---------------------------------------------------------------------- C20
\* C20, as stated: a setColumWidth call whose arguments do not have the
\* expected shape raises no error and leaves the column-width map and the
\* row buffer unchanged.
C20_Original ==
  [][(\E a \in LooseCalls : SetColumWidthLoose(a)) =>
       (columnWidths' = columnWidths /\ rows' = rows /\ thrown' = thrown)]_vars

\* ---------------------------------------------------------------------- C21
\* What add(str) makes of the table as it is: for a string already in it
\* the table as it is and the position of the string, for a new string the
\* table with the string appended, indexed by the size before the call.
AddAsClaimed(str) ==
  LET a == add(Table, str)
  IN IF \E n \in 1..Len(strings) : strings[n] = str
     THEN /\ a.strings = strings
          /\ a.stringIndexMap = stringIndexMap
          /\ strings[a.id + 1] = str
     ELSE /\ a.id = size(strings)
          /\ a.strings = strings \o <<str>>
          /\ DOMAIN a.stringIndexMap = DOMAIN stringIndexMap \cup {str}
          /\ a.stringIndexMap[str] = a.id
          /\ \A s \in DOMAIN stringIndexMap : a.stringIndexMap[s] = stringIndexMap[s]

\* C21: under any sequence of add and destroy the ids in use are exactly
\* 0..size()-1; the index maps s to i exactly when entry i is s; add of a
\* new string returns the size before the call and appends one entry, add
\* of a known string changes nothing; and the table shrinks only by destroy,
\* which empties the entries and the index together.
C21_TableInvariant ==
  /\ [](/\ {stringIndexMap[s] : s \in DOMAIN stringIndexMap} = 0..(size(strings) - 1)
        /\ {a[2] : a \in returned} = 0..(size(strings) - 1)
        /\ \A s \in DOMAIN stringIndexMap : strings[stringIndexMap[s] + 1] = s
        /\ \A n \in 1..Len(strings) : strings[n] \in DOMAIN stringIndexMap /\ stringIndexMap[strings[n]] = n - 1
        /\ \A str \in TablePool : AddAsClaimed(str))
  /\ [][Len(strings') < Len(strings) \/ DOMAIN stringIndexMap' # DOMAIN stringIndexMap \cup DOMAIN stringIndexMap'
          => (strings' = <<>> /\ stringIndexMap' = EmptyMap)]_vars
  /\ [][Len(strings') > Len(strings) => \E str \in TablePool \ DOMAIN stringIndexMap :
          /\ strings' = Append(strings, str)
          /\ returned' = returned \cup {<<str, size(strings)>>}]_vars

\* A table of three entries, "a&" added before "" and "true".
C21_Witness ==
  /\ strings = <<TxtAmp, TxtEmpty, TxtTrue>>
  /\ stringIndexMap[TxtEmpty] = 1
  /\ Cardinality(returned) = 3

\* ---------------------------------------------------------------------- C22
\* The characters the claim lets escapeXML change: the control characters
\* 0x00-0x1F and 0x7F and & < > " '.
MayChange(ch) == ch \in (0..31) \cup {127} \cup {38, 60, 62, 34, 39}

\* C22, as stated: the result of escapeXML is its input with each control
\* character and each of & < > " ' replaced by what escapeXML makes of that
\* character, every other character (the backslash among them) standing
\* unchanged in its place; a value that is not a string is returned as it
\* is.
C22_Original ==
  escaped # <<-1>> =>
    IF valueType # "string" THEN escaped = value
    ELSE escaped = Concat([n \in 1..Len(value) |-> IF MayChange(value[n]) THEN escapeXML(<<value[n]>>) ELSE <<value[n]>>])

====
